---- MODULE Spec2Model ----
(***************************************************************************)
(* A model of the linalg library: the dense Matrix container, the          *)
(* expression-template operation nodes (MatSum, MatSub, MatElMul,          *)
(* MatScale, MatShift, MatMul) and the materialising constructor           *)
(* Matrix(MatOp<E> const&).                                                *)
(*                                                                         *)
(* The model follows the latest revision of matrix.hpp                     *)
(* (src/unnamed/part_001, lines 525-1080).  The accessor of the earlier    *)
(* revision kept in the same file (lines 1-523) is modelled separately     *)
(* (IndexEarlier) under the specification SpecEarlier.                     *)
(*                                                                         *)
(* The template is instantiated at the element type double, the            *)
(* instantiation main.cpp uses for every expression.  A double is a        *)
(* dyadic rational whose significand has Precision bits, each arithmetic   *)
(* operation rounding to nearest, ties to even; int and std::size_t keep   *)
(* a width of IntBits and SizeBits bits.  The widths are scaled down from  *)
(* 53, 32 and 64 in the same order (IntBits <= Precision <= SizeBits).     *)
(***************************************************************************)
EXTENDS Integers, Sequences, FiniteSets, TLC

VARIABLES
    mats,    \* the named Matrix objects of the program: slot -> rows_, cols_, size_, data_
    scalars, \* the scalar objects that MatScale and MatShift nodes refer to
    temps,   \* the operation nodes of the full-expression being evaluated (a stack)
    last,    \* what the last call did: its name, arguments, outcome and effects
    steps    \* number of calls made so far

vars == <<mats, scalars, temps, last, steps>>

-----------------------------------------------------------------------------
(* Bounds of the model. *)

\* largest row or column count handed to a constructor
MaxDim == 2
\* largest number of operator applications in one full-expression
MaxNodes == 2
\* largest number of calls in one run of the container life cycle
MaxSteps == 3
\* width in bits of the modelled std::size_t
SizeBits == 5
\* bits of the significand of the modelled double
Precision == 4
\* width in bits of the modelled int
IntBits == 4

-----------------------------------------------------------------------------
(* Element values: a double holding the dyadic rational n / 2^e.           *)

RECURSIVE Pow2(_)
Pow2(k) == IF k = 0 THEN 1 ELSE 2 * Pow2(k - 1)

RECURSIVE Norm(_, _)
Norm(n, e) ==
    IF e > 0 /\ n % 2 = 0 THEN Norm(n \div 2, e - 1) ELSE [n |-> n, e |-> e]

Abs(k) == IF k >= 0 THEN k ELSE -k

\* number of bits of the natural number m
RECURSIVE BitLen(_)
BitLen(m) == IF m = 0 THEN 0 ELSE 1 + BitLen(m \div 2)

\* m / 2^k rounded to the nearest integer, ties to even
Nearest(m, k) ==
    LET q == m \div Pow2(k)
        r == m % Pow2(k)
        h == Pow2(k - 1)
    IN  IF r > h \/ (r = h /\ q % 2 = 1) THEN q + 1 ELSE q

\* the double nearest to n / 2^e: the significand keeps Precision bits
Round(n, e) ==
    LET k == BitLen(Abs(n)) - Precision
    IN  IF k <= 0 THEN Norm(n, e)
        ELSE Norm((IF n >= 0 THEN 1 ELSE -1) * Nearest(Abs(n), k) * Pow2(k), e)

\* an integer literal converted to the element type
Num(k) == Round(k, 0)

\* the literal 0.5
Half == [n |-> 1, e |-> 1]

IsInteger(x) == x.e = 0

MaxOf(a, b) == IF a >= b THEN a ELSE b

\* x + y of the element type
Add(x, y) ==
    LET e == MaxOf(x.e, y.e)
    IN  Round(x.n * Pow2(e - x.e) + y.n * Pow2(e - y.e), e)

\* x - y of the element type
Sub(x, y) ==
    LET e == MaxOf(x.e, y.e)
    IN  Round(x.n * Pow2(e - x.e) - y.n * Pow2(e - y.e), e)

\* x * y of the element type
Mul(x, y) == Round(x.n * y.n, x.e + y.e)

\* the integral part of an element value: the fraction is discarded
Trunc(x) ==
    LET d == Pow2(x.e)
    IN  IF x.n >= 0 THEN x.n \div d ELSE -((-x.n) \div d)

\* the values of int
INT_MAX == Pow2(IntBits - 1) - 1

INT_MIN == -Pow2(IntBits - 1)

\* the conversion of x to int is defined: its integral part is a value of int
IntCastDefined(x) == INT_MIN <= Trunc(x) /\ Trunc(x) <= INT_MAX

\* conversion of an element value to int, and of the int back on its next use
IntCast(x) == Num(Trunc(x))

-----------------------------------------------------------------------------
(* std::size_t arithmetic. *)

SizeMod == Pow2(SizeBits)

MAX_SZ == SizeMod - 1

SzMul(a, b) == (a * b) % SizeMod

SzAdd(a, b) == (a + b) % SizeMod

-----------------------------------------------------------------------------
(* The Matrix container: rows_, cols_, size_ and data_.                    *)

Slots == {"A", "B", "R"}

\* a slot that holds no object
NoMatrix == [live |-> FALSE, rows |-> 0, cols |-> 0, size |-> 0, data |-> <<>>]

\* std::vector<T>::resize(n, val): keeps the first elements, appends copies of val
VecResize(d, n, val) == [k \in 1..n |-> IF k <= Len(d) THEN d[k] ELSE val]

\* the value of a read outside the buffer: no number
Indeterminate == [n |-> 0, e |-> 63]

InRangeMutant(m, i, j) == SzAdd(SzMul(i, m.cols), j) < m.size

\* the precondition asserted by Matrix::operator()(i, j)
InRange(m, i, j) == i < m.rows /\ j < m.cols

IndexMutant(m, i, j) == SzAdd(SzMul(i, m.rows), j)

\* the buffer position Matrix::operator()(i, j) addresses: i * cols_ + j
Index(m, i, j) == SzAdd(SzMul(i, m.cols), j)

\* the position operator()(i, j) addresses lies inside the buffer
Addressable(m, i, j) == Index(m, i, j) < Len(m.data)

\* so does the position of every index pair of an r x c loop over m
AllAddressable(m, r, c) == \A i \in 0..(r - 1), j \in 0..(c - 1) : Addressable(m, i, j)

\* const T& operator()(i, j) const: the element read
At(m, i, j) ==
    IF Index(m, i, j) < Len(m.data) THEN m.data[Index(m, i, j) + 1] ELSE Indeterminate

\* T& operator()(i, j) followed by the store through the reference
Put(m, i, j, x) ==
    IF Index(m, i, j) < Len(m.data)
    THEN [m EXCEPT !.data[Index(m, i, j) + 1] = x]
    ELSE m

\* the index pairs in the order the loops "for i < r, for j < c" visit them
RowMajor(r, c) == [k \in 1..(r * c) |-> <<(k - 1) \div c, (k - 1) % c>>]

\* the loop body "(*this)(i,j) = src(i,j)" run over the visits k, k+1, ...;
\* src is the function (i, j) -> value read from the source.  A buffer
\* position keeps the value of the last visit that stored to it
StoreAll(m, visits, src, k) ==
    [m EXCEPT !.data =
        [q \in 1..Len(m.data) |->
            LET hits == {v \in k..Len(visits) :
                            Index(m, visits[v][1], visits[v][2]) = q - 1}
            IN  IF hits = {} THEN m.data[q]
                ELSE src[visits[CHOOSE v \in hits : \A w \in hits : w <= v]]]]

\* how many times the loop stored to each buffer position
RECURSIVE StoreCount(_, _, _, _)
StoreCount(m, visits, cnt, k) ==
    IF k > Len(visits) THEN cnt
    ELSE LET p == Index(m, visits[k][1], visits[k][2])
         IN  StoreCount(m, visits,
                        IF p \in DOMAIN cnt THEN [cnt EXCEPT ![p] = @ + 1] ELSE cnt,
                        k + 1)

\* Matrix(r, c, val); Matrix(r, c) delegates to it with val = T(0)
MatrixFillOk(r, c) == r > 0 /\ c > 0 /\ r < MAX_SZ /\ c < MAX_SZ

MatrixFill(r, c, val) ==
    [live |-> TRUE, rows |-> r, cols |-> c, size |-> SzMul(r, c),
     data |-> VecResize(<<>>, SzMul(r, c), val)]

\* Matrix(std::initializer_list<U> vals): one row holding vals
MatrixList(vals) ==
    [live |-> TRUE, rows |-> 1, cols |-> Len(vals), size |-> Len(vals),
     data |-> [k \in 1..Len(vals) |-> vals[k]]]

\* the values other(i, j) for the index pairs of an r x c loop
Values(other, r, c) ==
    [p \in {<<i, j>> : i \in 0..(r - 1), j \in 0..(c - 1)} |-> At(other, p[1], p[2])]

\* Matrix(const Matrix<U>& other)
MatrixCopy(other) ==
    LET m0 == [live |-> TRUE, rows |-> other.rows, cols |-> other.cols,
               size |-> other.size, data |-> VecResize(<<>>, other.size, Num(0))]
    IN  StoreAll(m0, RowMajor(m0.rows, m0.cols), Values(other, m0.rows, m0.cols), 1)

MatrixAssignMutant(m, other) == [MatrixCopy(other) EXCEPT !.rows = m.rows, !.cols = m.cols]

\* operator=(const Matrix<U>& other), other being another object
MatrixAssign(m, other) ==
    LET m0 == [live |-> TRUE, rows |-> other.rows, cols |-> other.cols,
               size |-> other.size, data |-> VecResize(m.data, other.size, Num(0))]
    IN  StoreAll(m0, RowMajor(m0.rows, m0.cols), Values(other, m0.rows, m0.cols), 1)

MatrixAssignListMutant(m, vals) == MatrixList(vals)

\* operator=(std::initializer_list<U> vals), asserted size_ == vals.size()
MatrixAssignList(m, vals) ==
    [m EXCEPT !.data = [k \in 1..Len(m.data) |-> IF k <= Len(vals) THEN vals[k] ELSE m.data[k]]]

\* resize(r, c), asserted r * c == size_
ResizeOk(m, r, c) == SzMul(r, c) = m.size

ResizeMutant(m, r, c) == [m EXCEPT !.rows = c, !.cols = r]

Resize(m, r, c) == [m EXCEPT !.rows = r, !.cols = c]

\* the values (*this)(j, i) that t() reads for the index pairs of the result
Transposed(m) ==
    [p \in {<<i, j>> : i \in 0..(m.cols - 1), j \in 0..(m.rows - 1)} |-> At(m, p[2], p[1])]

tMutant(m) ==
    LET res == MatrixFill(m.cols, m.rows, Num(0))
    IN  StoreAll(res, RowMajor(res.rows, res.cols), Values(m, m.cols, m.rows), 1)

\* t(): Matrix<T> result(cols_, rows_, T(0)), then result(i,j) = (*this)(j,i)
t(m) ==
    LET res == MatrixFill(m.cols, m.rows, Num(0))
    IN  StoreAll(res, RowMajor(res.rows, res.cols), Transposed(m), 1)

-----------------------------------------------------------------------------
(* Operation nodes.  A node refers to its operands: a Matrix operand by    *)
(* the slot of the object, a scalar operand by the cell of the scalar, a   *)
(* node operand by the temporary itself.  Only MatMul owns data: _vt.      *)

Leaf(id) == [op |-> "Matrix", id |-> id]

IsLeaf(n) == n.op = "Matrix"

ElementWise == {"MatSum", "MatSub", "MatElMul"}

ScalarOps == {"MatScale", "MatShift"}

\* number of operator nodes in an expression
RECURSIVE NodeCount(_)
NodeCount(n) ==
    IF IsLeaf(n) THEN 0
    ELSE IF n.op \in ScalarOps THEN 1 + NodeCount(n.u)
    ELSE 1 + NodeCount(n.u) + NodeCount(n.v)

\* the kinds of operator nodes in an expression
RECURSIVE NodeKinds(_)
NodeKinds(n) ==
    IF IsLeaf(n) THEN {}
    ELSE IF n.op \in ScalarOps THEN {n.op} \cup NodeKinds(n.u)
    ELSE {n.op} \cup NodeKinds(n.u) \cup NodeKinds(n.v)

\* rows(): every node forwards to its left operand
RECURSIVE NRows(_, _)
NRows(n, M) == IF IsLeaf(n) THEN M[n.id].rows ELSE NRows(n.u, M)

\* cols(): MatMul forwards to its right operand, every other node to its left one
RECURSIVE NCols(_, _)
NCols(n, M) ==
    IF IsLeaf(n) THEN M[n.id].cols
    ELSE IF n.op = "MatMul" THEN NCols(n.v, M)
    ELSE NCols(n.u, M)

\* size(): MatMul computes _u.rows() * _v.cols(), every other node forwards to _u
RECURSIVE NSize(_, _)
NSize(n, M) ==
    IF IsLeaf(n) THEN M[n.id].size
    ELSE IF n.op = "MatMul" THEN SzMul(NRows(n.u, M), NCols(n.v, M))
    ELSE NSize(n.u, M)

SameShapeMutant(u, v, M) == NSize(u, M) = NSize(v, M)

\* the asserts of the MatSum, MatSub and MatElMul constructors
SameShape(u, v, M) ==
    /\ NSize(u, M) = NSize(v, M)
    /\ NRows(u, M) = NRows(v, M)
    /\ NCols(u, M) = NCols(v, M)

\* the assert of the MatMul constructor
Conformable(u, v, M) == NCols(u, M) = NRows(v, M)

\* MatMul::operator(): "auto sum = 0" declares an int, so that each
\* "sum += _u(i,c) * _vt(j,c)" converts the new sum back to int
RECURSIVE DotLoop(_, _, _, _)
DotLoop(row, col, c, sum) ==
    IF c > Len(row) THEN sum
    ELSE DotLoop(row, col, c + 1, IntCast(Add(sum, Mul(row[c], col[c]))))

\* every conversion to int of the loop is defined
RECURSIVE DotLoopDefined(_, _, _, _)
DotLoopDefined(row, col, c, sum) ==
    \/ c > Len(row)
    \/ /\ IntCastDefined(Add(sum, Mul(row[c], col[c])))
       /\ DotLoopDefined(row, col, c + 1, IntCast(Add(sum, Mul(row[c], col[c]))))

\* operator()(i, j) of a node: the Matrix accessor for a leaf, else the
\* operator() of the node's class
RECURSIVE NAt(_, _, _, _, _)

\* MatSum::operator(): _u(i,j) + _v(i,j)
MatSumAt(n, i, j, M, S) == Add(NAt(n.u, i, j, M, S), NAt(n.v, i, j, M, S))

MatSubAtMutant(n, i, j, M, S) == Sub(NAt(n.v, i, j, M, S), NAt(n.u, i, j, M, S))

\* MatSub::operator(): _u(i,j) - _v(i,j)
MatSubAt(n, i, j, M, S) == Sub(NAt(n.u, i, j, M, S), NAt(n.v, i, j, M, S))

MatElMulAtMutant(n, i, j, M, S) == Add(NAt(n.u, i, j, M, S), NAt(n.v, i, j, M, S))

\* MatElMul::operator(): _u(i,j) * _v(i,j)
MatElMulAt(n, i, j, M, S) == Mul(NAt(n.u, i, j, M, S), NAt(n.v, i, j, M, S))

\* MatScale::operator(): _u(i,j) * _v
MatScaleAt(n, i, j, M, S) == Mul(NAt(n.u, i, j, M, S), S[n.s])

\* MatShift::operator(): _u(i,j) + _v
MatShiftAt(n, i, j, M, S) == Add(NAt(n.u, i, j, M, S), S[n.s])

\* MatMul::operator(): the loop over c < _u.cols() of sum += _u(i,c) * _vt(j,c)
MatMulAt(n, i, j, M, S) ==
    LET k == NCols(n.u, M)
    IN  DotLoop([c \in 1..k |-> NAt(n.u, i, c - 1, M, S)],
                [c \in 1..k |-> At(n.vt, j, c - 1)], 1, Num(0))

NAt(n, i, j, M, S) ==
    CASE n.op = "Matrix"   -> At(M[n.id], i, j)
      [] n.op = "MatSum"   -> MatSumAt(n, i, j, M, S)
      [] n.op = "MatSub"   -> MatSubAt(n, i, j, M, S)
      [] n.op = "MatElMul" -> MatElMulAt(n, i, j, M, S)
      [] n.op = "MatScale" -> MatScaleAt(n, i, j, M, S)
      [] n.op = "MatShift" -> MatShiftAt(n, i, j, M, S)
      [] n.op = "MatMul"   -> MatMulAt(n, i, j, M, S)

\* every element that op(i, j) reads lies inside the buffer of its object
RECURSIVE NAddressable(_, _, _, _)
NAddressable(n, i, j, M) ==
    IF IsLeaf(n) THEN Addressable(M[n.id], i, j)
    ELSE IF n.op \in ScalarOps THEN NAddressable(n.u, i, j, M)
    ELSE IF n.op = "MatMul"
         THEN \A c \in 0..(NCols(n.u, M) - 1) :
                 NAddressable(n.u, i, c, M) /\ Addressable(n.vt, j, c)
    ELSE NAddressable(n.u, i, j, M) /\ NAddressable(n.v, i, j, M)

\* every conversion to int that op(i, j) makes is defined
RECURSIVE NConverts(_, _, _, _, _)
NConverts(n, i, j, M, S) ==
    IF IsLeaf(n) THEN TRUE
    ELSE IF n.op \in ScalarOps THEN NConverts(n.u, i, j, M, S)
    ELSE IF n.op = "MatMul"
         THEN LET k == NCols(n.u, M)
              IN  /\ \A c \in 0..(k - 1) : NConverts(n.u, i, c, M, S)
                  /\ DotLoopDefined([c \in 1..k |-> NAt(n.u, i, c - 1, M, S)],
                                    [c \in 1..k |-> At(n.vt, j, c - 1)], 1, Num(0))
    ELSE NConverts(n.u, i, j, M, S) /\ NConverts(n.v, i, j, M, S)

\* what a conversion to int of a value outside the values of int may yield
IntGarbage == {Num(INT_MIN), Num(0)}

\* the values op(i, j) for the index pairs of an r x c loop; g is the value of
\* an entry whose evaluation converts a value outside the values of int
NodeValues(n, r, c, M, S, g) ==
    [p \in {<<i, j>> : i \in 0..(r - 1), j \in 0..(c - 1)} |->
        IF NConverts(n, p[1], p[2], M, S) THEN NAt(n, p[1], p[2], M, S) ELSE g]

\* Matrix(MatOp<E> const& op): delegates to Matrix(op.rows(), op.cols()),
\* then stores op(i,j) into (*this)(i,j) for i < op.rows(), j < op.cols()
MatrixFromOp(n, M, S, g) ==
    LET r == NRows(n, M)
        c == NCols(n, M)
    IN  StoreAll(MatrixFill(r, c, Num(0)), RowMajor(r, c), NodeValues(n, r, c, M, S, g), 1)

\* the loops of the copy constructor and of operator=(Matrix) stay inside
\* the buffers: both objects have the rows, cols and size of other
CopyDefined(other) == AllAddressable(other, other.rows, other.cols)

\* the loop of t() stays inside the buffers of the object and of the result
TDefined(m) ==
    /\ AllAddressable(m, m.rows, m.cols)
    /\ AllAddressable(MatrixFill(m.cols, m.rows, Num(0)), m.cols, m.rows)

\* the loop of Matrix(MatOp<E> const&) stays inside the buffers of the new
\* object and of the operands
FromOpDefined(n, M) ==
    LET r == NRows(n, M)
        c == NCols(n, M)
    IN  /\ AllAddressable(MatrixFill(r, c, Num(0)), r, c)
        /\ \A i \in 0..(r - 1), j \in 0..(c - 1) : NAddressable(n, i, j, M)

\* every conversion to int of the loop of Matrix(MatOp<E> const&) is defined
FromOpConverts(n, M, S) ==
    "MatMul" \in NodeKinds(n)
       => \A i \in 0..(NRows(n, M) - 1), j \in 0..(NCols(n, M) - 1) : NConverts(n, i, j, M, S)

-----------------------------------------------------------------------------
(* Inputs of the calls. *)

\* an extent whose product with 2 is not representable in std::size_t
Wide == SizeMod \div 2

\* row and column counts handed to Matrix(r, c, val) and to resize(r, c)
Extents == (0..MaxDim) \cup {Wide}

ResizeExtents == (0..(MaxDim + 2)) \cup {Wide, Wide + 2}

\* what an access outside a buffer may read or leave behind
Garbage == {Num(0), Num(7)}

\* fill values handed to Matrix(r, c, val)
FillValues == {Num(0), Num(2)}

\* initializer lists handed to Matrix(list) and operator=(list)
Lists == {<<>>, <<Num(1), Num(2)>>, <<Num(1), Num(2), Num(3), Num(4)>>}

\* values stored through the mutable accessor
StoreValues == {Num(7)}

\* the scalar objects of the program and their values
Cells == {"h"}

CellValues == [c \in Cells |-> Half]

\* contents of the operands of an expression: base, step and binary exponent
\* of the arithmetic progression stored in row-major order
SeedsA == {[base |-> 1, step |-> 1, e |-> 0]}

SeedsB == {[base |-> -2, step |-> 5, e |-> 0]}

Progression(n, seed) == [k \in 1..n |-> Round(seed.base + (k - 1) * seed.step, seed.e)]

\* external buffers handed to Matrix(r, c, valarray)
Buffers == {Progression(MaxDim * MaxDim, [base |-> 5, step |-> 1, e |-> 0])}

\* the objects a program can hold before an expression is evaluated: any shape
\* up to MaxDim x MaxDim, and the one-row object built from an empty list
Operands(seeds) ==
    {[live |-> TRUE, rows |-> r, cols |-> c, size |-> r * c, data |-> Progression(r * c, sd)] :
        r \in 1..MaxDim, c \in 1..MaxDim, sd \in seeds}
    \cup {MatrixList(<<>>)}

-----------------------------------------------------------------------------
(* The calls.  A failed assert aborts the program: last.ok = FALSE and no  *)
(* further call is made.                                                   *)

SlotOrder == <<"A", "B", "R">>

\* the slot the next declared object takes: the first one holding no object
Fresh(s) ==
    /\ ~mats[s].live
    /\ \A k \in 1..Len(SlotOrder) :
          (\E l \in (k + 1)..Len(SlotOrder) : SlotOrder[l] = s) => mats[SlotOrder[k]].live

\* a statement starts with no temporary alive
Statement == temps = <<>> /\ last.ok

\* the objects after an access outside a buffer: as they were, or with one
\* element of one of them overwritten
Damage(M) ==
    {M} \cup UNION {{[M EXCEPT ![v].data[q] = g] : q \in 1..Len(M[v].data), g \in Garbage} :
                     v \in Slots}

\* a call with undefined behaviour: the program stops or goes on with damaged
\* objects; the run is not followed further
Undefined(call) ==
    /\ mats' \in Damage(mats)
    /\ last' = [op |-> "undefined", call |-> call, ok |-> FALSE, allocs |-> 0]

\* Matrix<T> s(r, c, val);  Matrix<T> s(r, c) is the call with val = 0
CallMatrixFill(s, r, c, val) ==
    /\ Statement /\ Fresh(s)
    /\ IF MatrixFillOk(r, c)
       THEN /\ mats' = [mats EXCEPT ![s] = MatrixFill(r, c, val)]
            /\ last' = [op |-> "fill", ok |-> TRUE, dst |-> s, r |-> r, c |-> c,
                        val |-> val, allocs |-> 1]
       ELSE /\ mats' = mats
            /\ last' = [op |-> "fill", ok |-> FALSE, dst |-> s, r |-> r, c |-> c,
                        val |-> val, allocs |-> 0]
    /\ UNCHANGED <<scalars, temps>>

\* Matrix<T> s = {vals};
CallMatrixList(s, vals) ==
    /\ Statement /\ Fresh(s)
    /\ mats' = [mats EXCEPT ![s] = MatrixList(vals)]
    /\ last' = [op |-> "list", ok |-> TRUE, dst |-> s, vals |-> vals, allocs |-> 1]
    /\ UNCHANGED <<scalars, temps>>

\* Matrix<T> s(r, c, valarray);  the loop body "data_ = valarray[i]" assigns an
\* element to the std::vector itself: no operator= of std::vector takes it, the
\* constructor cannot be instantiated and a program that makes the call is not
\* built.  No object comes to exist
CallMatrixBuffer(s, r, c, buf) ==
    /\ Statement /\ Fresh(s)
    /\ mats' = mats
    /\ last' = [op |-> "buffer", ok |-> FALSE, dst |-> s, r |-> r, c |-> c,
                buf |-> buf, allocs |-> 0]
    /\ UNCHANGED <<scalars, temps>>

\* Matrix<T> s = o;
CallMatrixCopy(s, o) ==
    /\ Statement /\ Fresh(s) /\ mats[o].live
    /\ IF CopyDefined(mats[o])
       THEN /\ mats' = [mats EXCEPT ![s] = MatrixCopy(mats[o])]
            /\ last' = [op |-> "copy", ok |-> TRUE, dst |-> s, src |-> o, allocs |-> 1]
       ELSE Undefined([op |-> "copy", dst |-> s, src |-> o])
    /\ UNCHANGED <<scalars, temps>>

\* s = o;  the self-assignment returns at once
CallAssign(s, o) ==
    /\ Statement /\ mats[s].live /\ mats[o].live
    /\ IF o = s \/ CopyDefined(mats[o])
       THEN /\ mats' = IF o = s THEN mats
                       ELSE [mats EXCEPT ![s] = MatrixAssign(mats[s], mats[o])]
            /\ last' = [op |-> "assign", ok |-> TRUE, dst |-> s, src |-> o, allocs |-> 0]
       ELSE Undefined([op |-> "assign", dst |-> s, src |-> o])
    /\ UNCHANGED <<scalars, temps>>

\* s = {vals};
CallAssignList(s, vals) ==
    /\ Statement /\ mats[s].live
    /\ IF mats[s].size = Len(vals)
       THEN /\ mats' = [mats EXCEPT ![s] = MatrixAssignList(mats[s], vals)]
            /\ last' = [op |-> "assignList", ok |-> TRUE, dst |-> s, vals |-> vals,
                        allocs |-> 0]
       ELSE /\ mats' = mats
            /\ last' = [op |-> "assignList", ok |-> FALSE, dst |-> s, vals |-> vals,
                        allocs |-> 0]
    /\ UNCHANGED <<scalars, temps>>

\* s.resize(r, c);
CallResize(s, r, c) ==
    /\ Statement /\ mats[s].live
    /\ IF ResizeOk(mats[s], r, c)
       THEN /\ mats' = [mats EXCEPT ![s] = Resize(mats[s], r, c)]
            /\ last' = [op |-> "resize", ok |-> TRUE, dst |-> s, r |-> r, c |-> c,
                        allocs |-> 0]
       ELSE /\ mats' = mats
            /\ last' = [op |-> "resize", ok |-> FALSE, dst |-> s, r |-> r, c |-> c,
                        allocs |-> 0]
    /\ UNCHANGED <<scalars, temps>>

\* Matrix<T> d = s.t();
CallT(s, d) ==
    /\ Statement /\ mats[s].live /\ Fresh(d)
    /\ IF ~MatrixFillOk(mats[s].cols, mats[s].rows)
       THEN /\ mats' = mats
            /\ last' = [op |-> "t", ok |-> FALSE, dst |-> d, src |-> s, allocs |-> 0]
       ELSE IF TDefined(mats[s])
       THEN /\ mats' = [mats EXCEPT ![d] = t(mats[s])]
            /\ last' = [op |-> "t", ok |-> TRUE, dst |-> d, src |-> s, allocs |-> 1]
       ELSE Undefined([op |-> "t", dst |-> d, src |-> s])
    /\ UNCHANGED <<scalars, temps>>

\* ... = s(i, j);  through the const accessor
CallRead(s, i, j) ==
    /\ Statement /\ mats[s].live
    /\ IF ~InRange(mats[s], i, j)
       THEN /\ mats' = mats
            /\ last' = [op |-> "read", ok |-> FALSE, src |-> s, i |-> i, j |-> j,
                        allocs |-> 0]
       ELSE IF Addressable(mats[s], i, j)
       THEN /\ mats' = mats
            /\ last' = [op |-> "read", ok |-> TRUE, src |-> s, i |-> i, j |-> j,
                        pos |-> Index(mats[s], i, j), val |-> At(mats[s], i, j),
                        allocs |-> 0]
       ELSE Undefined([op |-> "read", src |-> s, i |-> i, j |-> j])
    /\ UNCHANGED <<scalars, temps>>

\* s(i, j) = x;  through the mutable accessor
CallWrite(s, i, j, x) ==
    /\ Statement /\ mats[s].live
    /\ IF ~InRange(mats[s], i, j)
       THEN /\ mats' = mats
            /\ last' = [op |-> "write", ok |-> FALSE, src |-> s, i |-> i, j |-> j,
                        allocs |-> 0]
       ELSE IF Addressable(mats[s], i, j)
       THEN /\ mats' = [mats EXCEPT ![s] = Put(mats[s], i, j, x)]
            /\ last' = [op |-> "write", ok |-> TRUE, src |-> s, i |-> i, j |-> j,
                        pos |-> Index(mats[s], i, j), val |-> x, allocs |-> 0]
       ELSE Undefined([op |-> "write", src |-> s, i |-> i, j |-> j])
    /\ UNCHANGED <<scalars, temps>>

\* the object in slot s goes out of scope
Destroy(s) ==
    /\ Statement /\ mats[s].live
    /\ mats' = [mats EXCEPT ![s] = NoMatrix]
    /\ last' = [op |-> "destroy", ok |-> TRUE, dst |-> s, allocs |-> 0]
    /\ UNCHANGED <<scalars, temps>>

-----------------------------------------------------------------------------
(* Operator applications.  An operand is a named object (its slot) or a    *)
(* temporary of the full-expression: the newest one ("top") or the one     *)
(* built before it ("under").  A temporary is the operand of one operator. *)

StackRefs == {"top", "under"}

Refs == Slots \cup StackRefs

Pos(x) == IF x = "top" THEN Len(temps) ELSE Len(temps) - 1

IsOperand(x) == IF x \in Slots THEN mats[x].live ELSE Pos(x) >= 1

Operand(x) == IF x \in Slots THEN Leaf(x) ELSE temps[Pos(x)]

\* the temporaries left once the operands xs are bound to the new node
Rest(xs) == SubSeq(temps, 1, Len(temps) - Cardinality(xs \cap StackRefs))

RECURSIVE TotalNodes(_, _)
TotalNodes(stack, k) ==
    IF k > Len(stack) THEN 0 ELSE NodeCount(stack[k]) + TotalNodes(stack, k + 1)

\* the expression stays within MaxNodes operator applications
WithinBudget(stack) == TotalNodes(stack, 1) + (Len(stack) - 1) <= MaxNodes

\* operator+(MatOp, MatOp), operator-(MatOp, MatOp), operator&(MatOp, MatOp)
MatSum(u, v) == [op |-> "MatSum", u |-> u, v |-> v]

MatSub(u, v) == [op |-> "MatSub", u |-> u, v |-> v]

MatElMul(u, v) == [op |-> "MatElMul", u |-> u, v |-> v]

\* MatScale<E, T>(u, v) and MatShift<E, T>(u, v)
MatScale(u, s) == [op |-> "MatScale", u |-> u, s |-> s]

MatShift(u, s) == [op |-> "MatShift", u |-> u, s |-> s]

\* operator*(MatOp const& u, T const& v)
TimesScalar(u, s) == MatScale(u, s)

ScalarTimesMutant(s, u) == MatShift(u, s)

\* operator*(T const& v, MatOp const& u)
ScalarTimes(s, u) == MatScale(u, s)

\* operator+(MatOp const& u, T const& v)
PlusScalar(u, s) == MatShift(u, s)

\* operator+(T const& v, MatOp const& u)
ScalarPlus(s, u) == MatShift(u, s)

\* operator*(MatOp, MatOp): the node keeps v.t() in _vt
MatMul(u, v, M) == [op |-> "MatMul", u |-> u, v |-> v, vt |-> t(M[v.id])]

BuildAllocsMutant(kind) == 1

\* buffers allocated by the constructor of a node of the given kind
BuildAllocs(kind) == IF kind = "MatMul" THEN 1 ELSE 0

Build(name, node, xs, ok) ==
    /\ mats' = mats
    /\ scalars' = scalars
    /\ temps' = IF ok THEN Append(Rest(xs), node) ELSE temps
    /\ last' = [op |-> "build", name |-> name, ok |-> ok, node |-> node,
                allocs |-> BuildAllocs(node.op)]

BinaryOperands(x, y) ==
    /\ last.ok
    /\ IsOperand(x) /\ IsOperand(y)
    /\ (x \in StackRefs /\ y \in StackRefs) => x # y

\* x + y
CallPlus(x, y) ==
    /\ BinaryOperands(x, y)
    /\ LET n == MatSum(Operand(x), Operand(y))
       IN  /\ WithinBudget(Append(Rest({x, y}), n))
           /\ Build("operator+", n, {x, y}, SameShape(n.u, n.v, mats))

\* x - y
CallMinus(x, y) ==
    /\ BinaryOperands(x, y)
    /\ LET n == MatSub(Operand(x), Operand(y))
       IN  /\ WithinBudget(Append(Rest({x, y}), n))
           /\ Build("operator-", n, {x, y}, SameShape(n.u, n.v, mats))

\* x & y
CallAnd(x, y) ==
    /\ BinaryOperands(x, y)
    /\ LET n == MatElMul(Operand(x), Operand(y))
       IN  /\ WithinBudget(Append(Rest({x, y}), n))
           /\ Build("operator&", n, {x, y}, SameShape(n.u, n.v, mats))

\* x * s
CallTimesScalar(x, s) ==
    /\ last.ok /\ IsOperand(x)
    /\ LET n == TimesScalar(Operand(x), s)
       IN  /\ WithinBudget(Append(Rest({x}), n))
           /\ Build("operator*(MatOp,T)", n, {x}, TRUE)

\* s * x
CallScalarTimes(s, x) ==
    /\ last.ok /\ IsOperand(x)
    /\ LET n == ScalarTimes(s, Operand(x))
       IN  /\ WithinBudget(Append(Rest({x}), n))
           /\ Build("operator*(T,MatOp)", n, {x}, TRUE)

\* x + s
CallPlusScalar(x, s) ==
    /\ last.ok /\ IsOperand(x)
    /\ LET n == PlusScalar(Operand(x), s)
       IN  /\ WithinBudget(Append(Rest({x}), n))
           /\ Build("operator+(MatOp,T)", n, {x}, TRUE)

\* s + x
CallScalarPlus(s, x) ==
    /\ last.ok /\ IsOperand(x)
    /\ LET n == ScalarPlus(s, Operand(x))
       IN  /\ WithinBudget(Append(Rest({x}), n))
           /\ Build("operator+(T,MatOp)", n, {x}, TRUE)

\* x * y, y a Matrix: _vt(v.t()) is initialised first, its constructor asserting
\* positive extents, then u.cols() == v.rows() is asserted
CallTimes(x, y) ==
    /\ last.ok /\ IsOperand(x) /\ y \in Slots /\ mats[y].live
    /\ WithinBudget(Append(Rest({x}), MatSum(Operand(x), Leaf(y))))
    /\ IF ~MatrixFillOk(mats[y].cols, mats[y].rows)
       THEN /\ UNCHANGED <<mats, scalars, temps>>
            /\ last' = [op |-> "build", name |-> "operator*", ok |-> FALSE,
                        node |-> [op |-> "MatMul", u |-> Operand(x), v |-> Leaf(y)],
                        allocs |-> 0]
       ELSE IF TDefined(mats[y])
       THEN LET n == MatMul(Operand(x), Leaf(y), mats)
            IN  Build("operator*", n, {x}, Conformable(n.u, n.v, mats))
       ELSE /\ Undefined([op |-> "build", name |-> "operator*",
                           node |-> [op |-> "MatMul", u |-> Operand(x), v |-> Leaf(y)]])
            /\ UNCHANGED <<scalars, temps>>

\* Matrix<T> s = <expression>;  the full-expression ends with the statement
CallMatrixFromOp(s) ==
    /\ last.ok /\ Len(temps) = 1 /\ Fresh(s)
    /\ LET n == temps[1]
           r == NRows(n, mats)
           c == NCols(n, mats)
       IN  IF ~MatrixFillOk(r, c)
           THEN /\ mats' = mats
                /\ last' = [op |-> "fromOp", ok |-> FALSE, dst |-> s, node |-> n,
                            allocs |-> 0]
           ELSE IF FromOpDefined(n, mats)
           THEN /\ \E g \in (IF FromOpConverts(n, mats, scalars) THEN {Num(0)}
                                ELSE IntGarbage) :
                      mats' = [mats EXCEPT ![s] = MatrixFromOp(n, mats, scalars, g)]
                /\ last' = [op |-> "fromOp", ok |-> TRUE, dst |-> s, node |-> n,
                            visits |-> RowMajor(r, c),
                            stores |-> StoreCount(MatrixFill(r, c, Num(0)), RowMajor(r, c),
                                                  [q \in 0..(SzMul(r, c) - 1) |-> 0], 1),
                            allocs |-> 1]
           ELSE Undefined([op |-> "fromOp", dst |-> s, node |-> n])
    /\ temps' = <<>>
    /\ scalars' = scalars

-----------------------------------------------------------------------------
(* Specifications. *)

NoCall == [op |-> "none", ok |-> TRUE, allocs |-> 0]

\* Spec: the life cycle of the containers, from a program that holds no object
Init ==
    /\ mats = [s \in Slots |-> NoMatrix]
    /\ scalars = CellValues
    /\ temps = <<>>
    /\ last = NoCall
    /\ steps = 0

\* one more call of a run of at most MaxSteps calls
Tick == steps < MaxSteps /\ steps' = steps + 1

Next ==
    \/ \E s \in Slots, r \in Extents, c \in Extents, val \in FillValues :
          Tick /\ CallMatrixFill(s, r, c, val)
    \/ \E s \in Slots, vals \in Lists : Tick /\ CallMatrixList(s, vals)
    \/ \E s \in Slots, o \in Slots : Tick /\ CallMatrixCopy(s, o)
    \/ \E s \in Slots, o \in Slots : Tick /\ CallAssign(s, o)
    \/ \E s \in Slots, vals \in Lists : Tick /\ CallAssignList(s, vals)
    \/ \E s \in Slots, r \in ResizeExtents, c \in ResizeExtents :
          Tick /\ CallResize(s, r, c)
    \/ \E s \in Slots, d \in Slots : Tick /\ CallT(s, d)
    \/ \E s \in Slots, i \in 0..MaxDim, j \in 0..MaxDim : Tick /\ CallRead(s, i, j)
    \/ \E s \in Slots, i \in 0..MaxDim, j \in 0..MaxDim, x \in StoreValues :
          Tick /\ CallWrite(s, i, j, x)
    \/ \E s \in Slots : Tick /\ Destroy(s)
    \/ \E x \in Refs, y \in Refs : Tick /\ CallPlus(x, y)
    \/ \E x \in Refs, c \in Cells : Tick /\ CallTimesScalar(x, c)
    \/ \E x \in Refs, y \in Slots : Tick /\ CallTimes(x, y)
    \/ \E s \in Slots : Tick /\ CallMatrixFromOp(s)

Spec == Init /\ [][Next]_vars

\* SpecExpr: one statement "Matrix<T> R = <expression>;" over two operands A
\* and B, the expression being a chain of operators or a call of t()
InitExpr ==
    /\ \E a \in Operands(SeedsA), b \in Operands(SeedsB) :
          mats = [s \in Slots |-> IF s = "A" THEN a ELSE IF s = "B" THEN b ELSE NoMatrix]
    /\ scalars = CellValues
    /\ temps = <<>>
    /\ last = NoCall
    /\ steps = 0

\* the statement is still being evaluated
Evaluating == ~mats["R"].live /\ steps' = steps

NextExpr ==
    \/ \E x \in Refs, y \in Refs : Evaluating /\ CallPlus(x, y)
    \/ \E x \in Refs, y \in Refs : Evaluating /\ CallMinus(x, y)
    \/ \E x \in Refs, y \in Refs : Evaluating /\ CallAnd(x, y)
    \/ \E x \in Refs, c \in Cells : Evaluating /\ CallTimesScalar(x, c)
    \/ \E x \in Refs, c \in Cells : Evaluating /\ CallScalarTimes(c, x)
    \/ \E x \in Refs, c \in Cells : Evaluating /\ CallPlusScalar(x, c)
    \/ \E x \in Refs, c \in Cells : Evaluating /\ CallScalarPlus(c, x)
    \/ \E x \in Refs, y \in Slots : Evaluating /\ CallTimes(x, y)
    \/ \E s \in Slots : Evaluating /\ CallMatrixFromOp(s)
    \/ \E s \in Slots, d \in Slots : Evaluating /\ CallT(s, d)

SpecExpr == InitExpr /\ [][NextExpr]_vars

-----------------------------------------------------------------------------
(* The accessor of the earlier revision of matrix.hpp.                     *)

\* the buffer position the earlier operator()(i, j) addresses: i * rows_ + j
IndexEarlier(m, i, j) == SzAdd(SzMul(i, m.rows), j)

\* ... = s(i, j);  a position outside the buffer is read as any value
CallReadEarlier(s, i, j) ==
    /\ Statement /\ mats[s].live
    /\ mats' = mats
    /\ LET p == IndexEarlier(mats[s], i, j)
       IN  IF InRange(mats[s], i, j)
           THEN \E g \in Garbage :
                   last' = [op |-> "read", ok |-> TRUE, src |-> s, i |-> i, j |-> j,
                            pos |-> p,
                            val |-> IF p < Len(mats[s].data) THEN mats[s].data[p + 1] ELSE g,
                            allocs |-> 0]
           ELSE last' = [op |-> "read", ok |-> FALSE, src |-> s, i |-> i, j |-> j,
                         allocs |-> 0]
    /\ UNCHANGED <<scalars, temps>>

\* s(i, j) = x;  a store outside the buffer leaves the objects as they are or
\* overwrites an element of any object
CallWriteEarlier(s, i, j, x) ==
    /\ Statement /\ mats[s].live
    /\ LET p == IndexEarlier(mats[s], i, j)
       IN  IF InRange(mats[s], i, j)
           THEN /\ IF p < Len(mats[s].data)
                   THEN mats' = [mats EXCEPT ![s].data[p + 1] = x]
                   ELSE \/ mats' = mats
                        \/ \E v \in Slots : \E q \in 1..Len(mats[v].data) :
                              mats' = [mats EXCEPT ![v].data[q] = x]
                /\ last' = [op |-> "write", ok |-> TRUE, src |-> s, i |-> i, j |-> j,
                            pos |-> p, val |-> x, allocs |-> 0]
           ELSE /\ mats' = mats
                /\ last' = [op |-> "write", ok |-> FALSE, src |-> s, i |-> i, j |-> j,
                            allocs |-> 0]
    /\ UNCHANGED <<scalars, temps>>

\* SpecEarlier: one element access through the earlier accessor
FirstCall == last.op = "none" /\ steps' = steps

NextEarlier ==
    \/ \E s \in Slots, i \in 0..MaxDim, j \in 0..MaxDim :
          FirstCall /\ CallReadEarlier(s, i, j)
    \/ \E s \in Slots, i \in 0..MaxDim, j \in 0..MaxDim, x \in StoreValues :
          FirstCall /\ CallWriteEarlier(s, i, j, x)

SpecEarlier == InitExpr /\ [][NextEarlier]_vars

\* SpecCall: one call on the containers A and B, or one construction of R
NextCall ==
    \/ \E s \in Slots, r \in Extents, c \in Extents, val \in FillValues :
          FirstCall /\ CallMatrixFill(s, r, c, val)
    \/ \E s \in Slots, r \in Extents, c \in Extents, buf \in Buffers :
          FirstCall /\ CallMatrixBuffer(s, r, c, buf)
    \/ \E s \in Slots, vals \in Lists : FirstCall /\ CallMatrixList(s, vals)
    \/ \E s \in Slots, o \in Slots : FirstCall /\ CallMatrixCopy(s, o)
    \/ \E s \in Slots, o \in Slots : FirstCall /\ CallAssign(s, o)
    \/ \E s \in Slots, vals \in Lists : FirstCall /\ CallAssignList(s, vals)
    \/ \E s \in Slots, r \in ResizeExtents, c \in ResizeExtents :
          FirstCall /\ CallResize(s, r, c)
    \/ \E s \in Slots, i \in 0..MaxDim, j \in 0..MaxDim : FirstCall /\ CallRead(s, i, j)
    \/ \E s \in Slots, i \in 0..MaxDim, j \in 0..MaxDim, x \in StoreValues :
          FirstCall /\ CallWrite(s, i, j, x)

SpecCall == InitExpr /\ [][NextCall]_vars

-----------------------------------------------------------------------------
(* Vector<T>, derived from Matrix<T>: its constructors and assignments      *)
(* forward to those of Matrix<T>; rows(), cols() and resize() are its own   *)
(* and hide those of the base, which the operators keep using.              *)

\* the objects of the program declared as Vector<T>
Vectors == {"R"}

\* Vector<T>::rows()
VectorRows(m) == 1

\* Vector<T>::cols()
VectorCols(m) == m.size

\* Vector<T> v(n);
CallVectorSize(v, n) == CallMatrixFill(v, 1, n, Num(0))

\* Vector<T> v(n, val);
CallVectorFill(v, n, val) == CallMatrixFill(v, 1, n, val)

\* Vector<T> v(n, valarray);
CallVectorBuffer(v, n, buf) == CallMatrixBuffer(v, 1, n, buf)

\* Vector<T> v = {vals};
CallVectorList(v, vals) == CallMatrixList(v, vals)

\* Vector<T> v = <expression>;
CallVectorFromOp(v) == CallMatrixFromOp(v)

\* v = o;  for a Vector<T> o
CallVectorAssign(v, o) == CallAssign(v, o)

\* v = {vals};
CallVectorAssignList(v, vals) == CallAssignList(v, vals)

\* v.resize(r, c);  returns at once
CallVectorResize(v, r, c) ==
    /\ Statement /\ mats[v].live
    /\ mats' = mats
    /\ last' = [op |-> "vresize", ok |-> TRUE, dst |-> v, r |-> r, c |-> c, allocs |-> 0]
    /\ UNCHANGED <<scalars, temps>>

\* SpecVector: the Vector<T> R is constructed, from a size, a list or an
\* expression over the Matrix<T> operands A and B, then assigned and resized
Constructed == mats["R"].live /\ steps' = steps

NextVector ==
    \/ \E x \in Refs, y \in Refs : Evaluating /\ CallPlus(x, y)
    \/ \E x \in Refs, y \in Slots : Evaluating /\ CallTimes(x, y)
    \/ \E v \in Vectors, n \in Extents : Evaluating /\ CallVectorSize(v, n)
    \/ \E v \in Vectors, n \in Extents, val \in FillValues :
          Evaluating /\ CallVectorFill(v, n, val)
    \/ \E v \in Vectors, n \in Extents, buf \in Buffers :
          Evaluating /\ CallVectorBuffer(v, n, buf)
    \/ \E v \in Vectors, vals \in Lists : Evaluating /\ CallVectorList(v, vals)
    \/ \E v \in Vectors : Evaluating /\ CallVectorFromOp(v)
    \/ \E v \in Vectors, o \in Vectors : Constructed /\ CallVectorAssign(v, o)
    \/ \E v \in Vectors, vals \in Lists : Constructed /\ CallVectorAssignList(v, vals)
    \/ \E v \in Vectors, r \in ResizeExtents, c \in ResizeExtents :
          Constructed /\ CallVectorResize(v, r, c)

SpecVector == InitExpr /\ [][NextVector]_vars

-----------------------------------------------------------------------------
(* A node bound to a name: "auto n = A * h;  h = val;  Matrix<T> R = n;".   *)
(* MatScale and MatShift keep the scalar as "T const& _v", a reference to   *)
(* the object of the caller: the model's node names the cell, and op(i,j)   *)
(* reads the cell when it is evaluated.                                     *)

\* the values assigned to a scalar object
ScalarValues == {Half, Num(2)}

\* c = val;
CallSetScalar(c, val) ==
    /\ last.ok
    /\ scalars' = [scalars EXCEPT ![c] = val]
    /\ last' = [op |-> "setScalar", ok |-> TRUE, cell |-> c, val |-> val, allocs |-> 0]
    /\ UNCHANGED <<mats, temps>>

\* no scalar object has been assigned yet
Unassigned == scalars = CellValues

\* SpecNamed: nodes of the scalar operators are built, then the scalar
\* objects are assigned, then the node is materialised into R
NextNamed ==
    \/ \E x \in Refs, c \in Cells : Evaluating /\ Unassigned /\ CallTimesScalar(x, c)
    \/ \E x \in Refs, c \in Cells : Evaluating /\ Unassigned /\ CallScalarTimes(c, x)
    \/ \E x \in Refs, c \in Cells : Evaluating /\ Unassigned /\ CallPlusScalar(x, c)
    \/ \E x \in Refs, c \in Cells : Evaluating /\ Unassigned /\ CallScalarPlus(c, x)
    \/ \E c \in Cells, val \in ScalarValues :
          Evaluating /\ temps # <<>> /\ CallSetScalar(c, val)
    \/ \E s \in Slots : Evaluating /\ CallMatrixFromOp(s)

SpecNamed == InitExpr /\ [][NextNamed]_vars

-----------------------------------------------------------------------------
(* A node assigned to an object: "A = A + B;".  No operator= of Matrix<T>   *)
(* takes a node: the node is converted to a temporary Matrix<T> by          *)
(* Matrix(MatOp<E> const&), the temporary is assigned and then destroyed.   *)

AssignFromOpMutant(s, n, M, S, g) ==
    MatrixFromOp(n, [M EXCEPT ![s] = MatrixFill(NRows(n, M), NCols(n, M), Num(0))], S, g)

\* the object in slot s after "s = <node n>;"
AssignFromOp(s, n, M, S, g) == MatrixAssign(M[s], MatrixFromOp(n, M, S, g))

\* s = <expression>;
CallAssignFromOp(s) ==
    /\ last.ok /\ Len(temps) = 1 /\ mats[s].live
    /\ LET n == temps[1]
           r == NRows(n, mats)
           c == NCols(n, mats)
       IN  IF ~MatrixFillOk(r, c)
           THEN /\ mats' = mats
                /\ last' = [op |-> "assignOp", ok |-> FALSE, dst |-> s, node |-> n,
                            allocs |-> 0]
           ELSE IF FromOpDefined(n, mats)
           THEN /\ \E g \in (IF FromOpConverts(n, mats, scalars) THEN {Num(0)}
                                ELSE IntGarbage) :
                      mats' = [mats EXCEPT ![s] = AssignFromOp(s, n, mats, scalars, g)]
                /\ last' = [op |-> "assignOp", ok |-> TRUE, dst |-> s, node |-> n,
                            allocs |-> 1]
           ELSE Undefined([op |-> "assignOp", dst |-> s, node |-> n])
    /\ temps' = <<>>
    /\ scalars' = scalars

\* SpecAssign: one statement "s = <expression>;" over the operands A and B
Pending == last.op # "assignOp" /\ steps' = steps

NextAssign ==
    \/ \E x \in Refs, y \in Refs : Pending /\ CallPlus(x, y)
    \/ \E x \in Refs, y \in Refs : Pending /\ CallAnd(x, y)
    \/ \E x \in Refs, c \in Cells : Pending /\ CallScalarTimes(c, x)
    \/ \E x \in Refs, y \in Slots : Pending /\ CallTimes(x, y)
    \/ \E s \in Slots : Pending /\ CallAssignFromOp(s)

SpecAssign == InitExpr /\ [][NextAssign]_vars

-----------------------------------------------------------------------------
(* The data model the operations are specified against. *)

\* a Dense Container: strictly positive extents, a buffer of rows x cols elements
DenseContainer(m) ==
    /\ m.live /\ m.rows >= 1 /\ m.cols >= 1
    /\ m.size = m.rows * m.cols /\ Len(m.data) = m.rows * m.cols

\* the element (i, j) of a Dense Container: row-major, elements[i * cols + j]
Elt(m, i, j) == m.data[i * m.cols + j + 1]

IndexPairs(r, c) == {<<i, j>> : i \in 0..(r - 1), j \in 0..(c - 1)}

-----------------------------------------------------------------------------
(* The loops of Matrix(MatOp<E> const&) under "#pragma omp parallel for     *)
(* collapse(2)": the iterations (i, j) are handed out to the threads of the *)
(* team, each to one thread, and a thread evaluates op(i,j) and then stores *)
(* the value at (i,j) of the new object.  The threads interleave freely.    *)

Workers == {"w1", "w2"}

\* a thread between two iterations
Idle == <<>>

\* the buffer positions that the evaluation of op(i, j) reads, each with the
\* object it belongs to; "_vt" is the transposed copy kept by a MatMul node
RECURSIVE NReads(_, _, _, _)
NReads(n, i, j, M) ==
    IF IsLeaf(n) THEN {<<n.id, Index(M[n.id], i, j)>>}
    ELSE IF n.op \in ScalarOps THEN NReads(n.u, i, j, M)
    ELSE IF n.op = "MatMul"
         THEN UNION {NReads(n.u, i, c, M) \cup {<<"_vt", Index(n.vt, j, c)>>} :
                        c \in 0..(NCols(n.u, M) - 1)}
    ELSE NReads(n.u, i, j, M) \cup NReads(n.v, i, j, M)

ClaimedMutant(todo, p) == todo

\* the iterations still to hand out once iteration p is given to a thread
Claimed(todo, p) == todo \ {p}

\* the statements "Matrix<T> R = <node over A and B>;" that are evaluated
FillNodes(M) ==
    {MatSum(Leaf("A"), Leaf("B")), MatSub(MatSum(Leaf("A"), Leaf("B")), Leaf("B")),
     MatScale(MatElMul(Leaf("A"), Leaf("B")), "h")}
    \cup (IF MatrixFillOk(M["B"].cols, M["B"].rows)
          THEN {MatMul(Leaf("A"), Leaf("B"), M)} ELSE {})

\* the constructors of the node and of its operands passed their asserts
RECURSIVE Built(_, _)
Built(n, M) ==
    IF IsLeaf(n) THEN TRUE
    ELSE IF n.op \in ScalarOps THEN Built(n.u, M)
    ELSE IF n.op = "MatMul" THEN Built(n.u, M) /\ Built(n.v, M) /\ Conformable(n.u, n.v, M)
    ELSE Built(n.u, M) /\ Built(n.v, M) /\ SameShape(n.u, n.v, M)

\* SpecFill starts where the parallel region is entered: the node is built and
\* Matrix(op.rows(), op.cols()) has zero-filled the new object
InitFill ==
    /\ \E a \in Operands(SeedsA), b \in Operands(SeedsB) :
          LET M == [s \in Slots |-> IF s = "A" THEN a ELSE IF s = "B" THEN b ELSE NoMatrix]
          IN  \E n \in FillNodes(M) :
                 /\ Built(n, M) /\ MatrixFillOk(NRows(n, M), NCols(n, M))
                 /\ mats = [M EXCEPT !["R"] = MatrixFill(NRows(n, M), NCols(n, M), Num(0))]
                 /\ temps = <<n>>
                 /\ last = [op |-> "parallel", ok |-> TRUE, dst |-> "R", node |-> n,
                            todo |-> IndexPairs(NRows(n, M), NCols(n, M)),
                            held |-> [w \in Workers |-> Idle],
                            writes |-> [q \in 0..(NRows(n, M) * NCols(n, M) - 1) |-> 0],
                            reads |-> {}, allocs |-> 1]
    /\ scalars = CellValues
    /\ steps = 0

\* thread w takes iteration p and evaluates op(i, j)
Fetch(w, p) ==
    /\ last.op = "parallel" /\ last.ok
    /\ last.held[w] = Idle /\ p \in last.todo
    /\ \E g \in (IF NConverts(last.node, p[1], p[2], mats, scalars)
                  THEN {NAt(last.node, p[1], p[2], mats, scalars)} ELSE IntGarbage) :
          last' = [last EXCEPT !.todo = Claimed(last.todo, p),
                               !.held[w] = <<p[1], p[2], g>>,
                               !.reads = @ \cup NReads(last.node, p[1], p[2], mats)]
    /\ UNCHANGED <<mats, scalars, temps, steps>>

\* thread w stores the value it holds: (*this)(i,j) = value
Store(w) ==
    /\ last.op = "parallel" /\ last.ok
    /\ last.held[w] # Idle
    /\ LET i == last.held[w][1]
           j == last.held[w][2]
           R == mats[last.dst]
       IN  IF InRange(R, i, j) /\ Addressable(R, i, j)
           THEN /\ mats' = [mats EXCEPT ![last.dst] = Put(R, i, j, last.held[w][3])]
                /\ last' = [last EXCEPT !.held[w] = Idle, !.writes[Index(R, i, j)] = @ + 1]
           ELSE Undefined([op |-> "parallel", dst |-> last.dst, node |-> last.node])
    /\ UNCHANGED <<scalars, temps, steps>>

\* every iteration is done: the team joins and the temporaries are destroyed
Join ==
    /\ last.op = "parallel" /\ last.ok
    /\ last.todo = {} /\ \A w \in Workers : last.held[w] = Idle
    /\ last' = [last EXCEPT !.op = "joined"]
    /\ temps' = <<>>
    /\ UNCHANGED <<mats, scalars, steps>>

NextFill ==
    \/ \E w \in Workers, p \in IndexPairs(MaxDim, MaxDim) : Fetch(w, p)
    \/ \E w \in Workers : Store(w)
    \/ Join

SpecFill == InitFill /\ [][NextFill]_vars

-----------------------------------------------------------------------------
(* Matrix(MatOp<E> const&): the materialisation of a node. *)

\* C1: construct(node) ends with a container of shape node.rows() x node.cols()
\* whose entry (i,j) equals node.elementAt(i,j) for every i < rows, j < cols
\* (where elementAt has a value), each entry evaluated once and each buffer
\* position written once.  It is refused exactly when an extent of the node
\* is zero, and it makes no access outside a buffer.
C1_Construct ==
    /\ ~(last.op = "undefined" /\ last.call.op = "fromOp")
    /\ last.op = "fromOp" =>
          LET n == last.node
              r == NRows(n, mats)
              c == NCols(n, mats)
              R == mats[last.dst]
          IN  /\ last.ok <=> (r >= 1 /\ c >= 1)
              /\ last.ok =>
                    /\ DenseContainer(R) /\ R.rows = r /\ R.cols = c
                    /\ \A p \in IndexPairs(r, c) :
                          /\ NConverts(n, p[1], p[2], mats, scalars)
                                => Elt(R, p[1], p[2]) = NAt(n, p[1], p[2], mats, scalars)
                          /\ Cardinality({k \in 1..Len(last.visits) : last.visits[k] = p}) = 1
                    /\ Len(last.visits) = r * c
                    /\ \A q \in 0..(r * c - 1) : last.stores[q] = 1

\* a nested expression was materialised into a non-square container
C1_Witness ==
    /\ last.op = "fromOp" /\ last.ok
    /\ NodeCount(last.node) = 2
    /\ mats[last.dst].rows = 2 /\ mats[last.dst].cols = 1

\* the call the last step made, also when its behaviour was undefined
LastCall == IF last.op = "undefined" THEN last.call ELSE last

\* the last call materialised, or was to materialise, a node of one of the kinds
\* applied to named objects
FromOpOver(kinds) ==
    /\ LastCall.op = "fromOp"
    /\ LastCall.node.op \in kinds
    /\ IsLeaf(LastCall.node.u)
    /\ LastCall.node.op \notin ScalarOps => IsLeaf(LastCall.node.v)

-----------------------------------------------------------------------------
(* MatMul: the matrix product. *)

IntegerValued(m) == \A k \in 1..Len(m.data) : IsInteger(m.data[k])

\* the sum over t < k of U(i,t) * V(t,j), for integer valued U and V
RECURSIVE DotSum(_, _, _, _, _)
DotSum(U, V, i, j, k) ==
    IF k = 0 THEN 0
    ELSE DotSum(U, V, i, j, k - 1) + Elt(U, i, k - 1).n * Elt(V, k - 1, j).n

\* C2: for every container A (r x c) and B (c x k) with integer element values,
\* A * B is built and materialises into a container of shape (r, k) whose entry
\* (i,j) is the sum over t < c of A(i,t) * B(t,j), non-square and row-vector
\* operands included.
C2_Product ==
    (/\ LastCall.op \in {"build", "fromOp"}
     /\ LastCall.node.op = "MatMul" /\ IsLeaf(LastCall.node.u)
     /\ DenseContainer(mats[LastCall.node.u.id])
     /\ DenseContainer(mats[LastCall.node.v.id])
     /\ mats[LastCall.node.u.id].cols = mats[LastCall.node.v.id].rows
     /\ IntegerValued(mats[LastCall.node.u.id])
     /\ IntegerValued(mats[LastCall.node.v.id]))
    => LET U == mats[LastCall.node.u.id]
           V == mats[LastCall.node.v.id]
       IN  /\ last.op # "undefined" /\ last.ok
           /\ last.op = "fromOp" =>
                 LET R == mats[last.dst]
                 IN  /\ DenseContainer(R) /\ R.rows = U.rows /\ R.cols = V.cols
                     /\ \A p \in IndexPairs(U.rows, V.cols) :
                           Elt(R, p[1], p[2]) = [n |-> DotSum(U, V, p[1], p[2], U.cols), e |-> 0]

-----------------------------------------------------------------------------
(* MatSum, MatSub, MatElMul: the element-wise operators. *)

\* C3: for all containers A, B of identical rows and cols, A + B, A - B and A & B
\* are built as a sum, a difference and an element-wise product node, and
\* materialise into a container of the operands' shape whose entry (i,j) is
\* A(i,j) + B(i,j), A(i,j) - B(i,j) and A(i,j) * B(i,j) of the element type.
C3_ElementWise ==
    /\ (/\ last.op = "build"
        /\ last.name \in {"operator+", "operator-", "operator&"}
        /\ IsLeaf(last.node.u) /\ IsLeaf(last.node.v)
        /\ DenseContainer(mats[last.node.u.id]) /\ DenseContainer(mats[last.node.v.id])
        /\ mats[last.node.u.id].rows = mats[last.node.v.id].rows
        /\ mats[last.node.u.id].cols = mats[last.node.v.id].cols)
       => /\ last.ok
          /\ last.node.op = (CASE last.name = "operator+" -> "MatSum"
                               [] last.name = "operator-" -> "MatSub"
                               [] last.name = "operator&" -> "MatElMul")
    /\ (FromOpOver(ElementWise) /\ DenseContainer(mats[LastCall.node.u.id]))
       => LET A == mats[LastCall.node.u.id]
              B == mats[LastCall.node.v.id]
              R == mats[LastCall.dst]
          IN  /\ last.op = "fromOp" /\ last.ok
              /\ DenseContainer(R) /\ R.rows = A.rows /\ R.cols = A.cols
              /\ B.rows = A.rows /\ B.cols = A.cols
              /\ \A p \in IndexPairs(A.rows, A.cols) :
                    Elt(R, p[1], p[2]) =
                       (CASE last.node.op = "MatSum" ->
                                Add(Elt(A, p[1], p[2]), Elt(B, p[1], p[2]))
                          [] last.node.op = "MatSub" ->
                                Sub(Elt(A, p[1], p[2]), Elt(B, p[1], p[2]))
                          [] last.node.op = "MatElMul" ->
                                Mul(Elt(A, p[1], p[2]), Elt(B, p[1], p[2])))

\* A & B of two different non-square objects was materialised
C3_Witness ==
    /\ last.op = "fromOp" /\ last.ok
    /\ last.node = MatElMul(Leaf("A"), Leaf("B"))
    /\ mats["R"].rows = 1 /\ mats["R"].cols = 2
    /\ mats["R"].data # mats["A"].data

-----------------------------------------------------------------------------
(* Matrix::operator()(i, j) and the invariant of the container. *)

\* C4: for a container with rows r and cols c, elementAt(i,j), read or mutable,
\* addresses buffer position i*c + j for every i < r and j < c, whatever the
\* shape, and that position lies below the buffer length.
C4_RowMajor ==
    (last.op \in {"read", "write"} /\ last.ok)
    => /\ last.pos = last.i * mats[last.src].cols + last.j
       /\ last.pos < Len(mats[last.src].data)

\* C5: after any sequence of constructions, assignments, materialisations,
\* reshapes and element writes, every container has
\* buffer length == stored size == rows * cols.
C5_SizeInvariant ==
    \A s \in Slots :
        mats[s].live =>
            /\ Len(mats[s].data) = mats[s].size
            /\ mats[s].size = mats[s].rows * mats[s].cols

-----------------------------------------------------------------------------
(* Matrix::t(). *)

\* C6: for every container A of shape (r, c), A.t() returns a new container of
\* shape (c, r) with result(i,j) == A(j,i) for all i < c and j < r, and leaves
\* A's rows, cols and elements as they were.
C6_Transpose ==
    [][(/\ last'.op \in {"t", "undefined"}
        /\ last' # last
        /\ (IF last'.op = "t" THEN last' ELSE last'.call).op = "t"
        /\ DenseContainer(mats[(IF last'.op = "t" THEN last' ELSE last'.call).src]))
       => /\ last'.op = "t" /\ last'.ok
          /\ LET A == mats[last'.src]
                 R == mats'[last'.dst]
             IN  /\ last'.dst # last'.src
                 /\ DenseContainer(R) /\ R.rows = A.cols /\ R.cols = A.rows
                 /\ \A p \in IndexPairs(A.cols, A.rows) :
                       Elt(R, p[1], p[2]) = Elt(A, p[2], p[1])
                 /\ mats'[last'.src] = A]_vars

\* a 1 x 2 object was transposed
C6_Witness ==
    /\ last.op = "t" /\ last.ok
    /\ mats[last.src].rows = 1 /\ mats[last.src].cols = 2
    /\ mats[last.dst].rows = 2 /\ mats[last.dst].cols = 1

-----------------------------------------------------------------------------
(* The asserts of the node constructors. *)

\* the extents of the operands of a node do not fit its operator
Mismatch(n) ==
    IF n.op = "MatMul" THEN NCols(n.u, mats) # NRows(n.v, mats)
    ELSE NRows(n.u, mats) # NRows(n.v, mats) \/ NCols(n.u, mats) # NCols(n.v, mats)

\* C7: applying +, - or & to operands whose rows or cols differ, or * to
\* operands with left.cols() != right.rows(), fails at the application: no
\* node is produced, no object is created or written, the operands stay as
\* they were.
C7_ShapeMismatch ==
    [][(/\ last'.op \in {"build", "undefined"}
        /\ last' # last
        /\ (IF last'.op = "build" THEN last' ELSE last'.call).op = "build"
        /\ (IF last'.op = "build" THEN last' ELSE last'.call).node.op
              \in ElementWise \cup {"MatMul"}
        /\ Mismatch((IF last'.op = "build" THEN last' ELSE last'.call).node))
       => /\ last'.op = "build" /\ ~last'.ok
          /\ temps' = temps
          /\ mats' = mats]_vars

\* A + B was refused although the two objects hold the same number of elements
C7_Witness ==
    /\ last.op = "build" /\ ~last.ok
    /\ last.name = "operator+"
    /\ NSize(last.node.u, mats) = NSize(last.node.v, mats)
    /\ NSize(last.node.u, mats) > 0

-----------------------------------------------------------------------------
(* Algebraic relations of materialised expressions. *)

\* the last call materialised, or was to materialise, (A + B) - B
RoundTrip ==
    /\ LastCall.op = "fromOp"
    /\ LastCall.node.op = "MatSub" /\ LastCall.node.u.op = "MatSum"
    /\ IsLeaf(LastCall.node.v)
    /\ IsLeaf(LastCall.node.u.u)
    /\ LastCall.node.u.v = LastCall.node.v
    /\ DenseContainer(mats[LastCall.node.u.u.id])

\* the double x + y is the sum of x and y: nothing was rounded away
ExactSum(x, y) ==
    LET e == MaxOf(x.e, y.e)
    IN  Add(x, y) = Norm(x.n * Pow2(e - x.e) + y.n * Pow2(e - y.e), e)

\* C8 (as claimed): for all containers A, B of matching shape,
\* materialize((A + B) - B) equals A in shape and in every element.
C8_RoundTrip ==
    RoundTrip
    => /\ last.op = "fromOp" /\ last.ok
       /\ mats[last.dst].rows = mats[last.node.u.u.id].rows
       /\ mats[last.dst].cols = mats[last.node.u.u.id].cols
       /\ mats[last.dst].data = mats[last.node.u.u.id].data

\* C8 (amended): for all containers A, B of matching shape such that every sum
\* A(i,j) + B(i,j) is exactly representable in the element type,
\* materialize((A + B) - B) equals A in shape and in every element.
C8_RoundTripExact ==
    (/\ RoundTrip
     /\ \A k \in 1..Len(mats[LastCall.node.u.u.id].data) :
           ExactSum(mats[LastCall.node.u.u.id].data[k], mats[LastCall.node.v.id].data[k]))
    => /\ last.op = "fromOp" /\ last.ok
       /\ mats[last.dst].rows = mats[last.node.u.u.id].rows
       /\ mats[last.dst].cols = mats[last.node.u.u.id].cols
       /\ mats[last.dst].data = mats[last.node.u.u.id].data

\* (A + B) - B was materialised for a 2 x 1 object A and another object B,
\* every sum being exact
C8_Witness ==
    /\ RoundTrip /\ last.op = "fromOp" /\ last.ok
    /\ last.node.u.u.id = "A" /\ last.node.v.id = "B"
    /\ mats["A"].rows = 2 /\ mats["A"].cols = 1
    /\ mats["A"].data # mats["B"].data
    /\ \A k \in 1..Len(mats["A"].data) : ExactSum(mats["A"].data[k], mats["B"].data[k])

\* buffers allocated by the constructors of the nodes of an expression
RECURSIVE NodeAllocs(_)
NodeAllocs(n) ==
    IF IsLeaf(n) THEN 0
    ELSE IF n.op \in ScalarOps THEN BuildAllocs(n.op) + NodeAllocs(n.u)
    ELSE BuildAllocs(n.op) + NodeAllocs(n.u) + NodeAllocs(n.v)

\* C9: constructing a container from an expression of any depth built from sum,
\* difference, element-wise product, scalar scale and scalar shift nodes
\* allocates exactly one buffer, the result's: applying an operator allocates
\* none.
C9_OneAllocation ==
    /\ (last.op = "build" /\ last.node.op \in ElementWise \cup ScalarOps)
       => last.allocs = 0
    /\ (last.op = "fromOp" /\ last.ok /\ NodeKinds(last.node) \subseteq ElementWise \cup ScalarOps)
       => /\ last.allocs = 1
          /\ last.allocs + NodeAllocs(last.node) = 1
          /\ \A s \in Slots : s # last.dst => mats[s].live = (s \in {"A", "B"})

\* an expression of two nested operators was materialised
C9_Witness ==
    /\ last.op = "fromOp" /\ last.ok
    /\ NodeCount(last.node) = 2
    /\ NodeKinds(last.node) = {"MatSub", "MatScale"}

\* C10: for every container A and scalar s, s * A and A * s are both built as a
\* scale node and s + A and A + s as a shift node over A and s, and the node
\* materialises into a container of A's shape with entry (i,j) == A(i,j) * s,
\* respectively A(i,j) + s.
C10_ScalarOps ==
    /\ (last.op = "build" /\ last.name \in {"operator*(T,MatOp)", "operator*(MatOp,T)"})
       => last.ok /\ last.node.op = "MatScale"
    /\ (last.op = "build" /\ last.name \in {"operator+(T,MatOp)", "operator+(MatOp,T)"})
       => last.ok /\ last.node.op = "MatShift"
    /\ (FromOpOver(ScalarOps) /\ DenseContainer(mats[LastCall.node.u.id]))
       => LET A == mats[LastCall.node.u.id]
              R == mats[LastCall.dst]
          IN  /\ last.op = "fromOp" /\ last.ok
              /\ DenseContainer(R) /\ R.rows = A.rows /\ R.cols = A.cols
              /\ \A p \in IndexPairs(A.rows, A.cols) :
                    Elt(R, p[1], p[2]) =
                       (IF last.node.op = "MatScale"
                        THEN Mul(Elt(A, p[1], p[2]), scalars[last.node.s])
                        ELSE Add(Elt(A, p[1], p[2]), scalars[last.node.s]))

\* a scale node over a non-square object was materialised
C10_Witness ==
    /\ last.op = "fromOp" /\ last.ok
    /\ last.node = MatScale(Leaf("A"), "h")
    /\ mats["R"].rows = 2 /\ mats["R"].cols = 1
    /\ mats["R"].data # mats["A"].data

-----------------------------------------------------------------------------
(* resize(r, c). *)

\* the step makes a call of the given kind
Calls(op) == last' # last /\ last'.op = op

\* C11: for every container and every (r, c) with r*c == size, reshape(r,c)
\* changes only rows and cols to (r, c) and leaves the buffer unchanged; reading
\* (i,j) afterwards, i < r and j < c, returns the element that was at linear
\* position i*c + j of the buffer
C11_Reshape ==
    [][\A s \in Slots :
          (Calls("resize") /\ last'.dst = s /\ last'.r * last'.c = mats[s].size)
          => /\ last'.ok
             /\ mats' = [mats EXCEPT ![s].rows = last'.r, ![s].cols = last'.c]
             /\ \A p \in IndexPairs(last'.r, last'.c) :
                   /\ Addressable(mats'[s], p[1], p[2])
                   /\ At(mats'[s], p[1], p[2]) = mats[s].data[p[1] * last'.c + p[2] + 1]]_vars

\* a two-element container was reshaped to 2 x 1
C11_Witness ==
    /\ last.op = "resize" /\ last.ok
    /\ last.r = 2 /\ last.c = 1
    /\ mats[last.dst].rows = 2 /\ mats[last.dst].cols = 1 /\ Len(mats[last.dst].data) = 2

\* C12: reshape(r,c) fails for every (r, c) whose mathematical product differs
\* from the size of the container, a zero extent and a product that equals the
\* size only modulo 2^w included; rows, cols and buffer are then unchanged
C12_ReshapeFails ==
    [][\A s \in Slots :
          (Calls("resize") /\ last'.dst = s /\ last'.r * last'.c # mats[s].size)
          => ~last'.ok /\ mats' = mats]_vars

-----------------------------------------------------------------------------
(* operator=(std::initializer_list<U>). *)

\* C13: assign(flatValues) on a container of size n fails and changes nothing
\* when len(flatValues) # n; otherwise rows and cols stay and buffer position k
\* holds flatValues[k] for every k < n
C13_AssignFlat ==
    [][\A s \in Slots :
          (Calls("assignList") /\ last'.dst = s)
          => IF Len(last'.vals) # mats[s].size
             THEN ~last'.ok /\ mats' = mats
             ELSE /\ last'.ok
                  /\ mats'[s].rows = mats[s].rows /\ mats'[s].cols = mats[s].cols
                  /\ Len(mats'[s].data) = mats[s].size
                  /\ \A k \in 1..mats[s].size : mats'[s].data[k] = last'.vals[k]
                  /\ \A o \in Slots \ {s} : mats'[o] = mats[o]]_vars

\* the two elements of the 2 x 1 container B were rewritten from a list
C13_Witness ==
    /\ last.op = "assignList" /\ last.ok /\ last.dst = "B"
    /\ mats["B"].rows = 2 /\ mats["B"].cols = 1
    /\ mats["B"].data = last.vals

-----------------------------------------------------------------------------
(* operator=(const Matrix<U>&). *)

\* C14: after A.assign(B), whatever the shapes of A and B were, A has the rows
\* and cols of B and A(i,j) = B(i,j) for every valid (i,j), and B is unchanged;
\* A.assign(A) leaves the shape and the elements of A unchanged
C14_AssignContainer ==
    [][\A s \in Slots, o \in Slots :
          (last' # last /\ LastCall'.op = "assign" /\ LastCall'.dst = s /\ LastCall'.src = o)
          => /\ last'.op = "assign" /\ last'.ok
             /\ mats'[s].rows = mats[o].rows /\ mats'[s].cols = mats[o].cols
             /\ \A p \in IndexPairs(mats[o].rows, mats[o].cols) :
                   /\ Addressable(mats'[s], p[1], p[2])
                   /\ At(mats'[s], p[1], p[2]) = At(mats[o], p[1], p[2])
             /\ \A v \in Slots \ {s} : mats'[v] = mats[v]
             /\ (s = o => mats' = mats)]_vars

\* the 2 x 1 container B was assigned to A
C14_Witness ==
    /\ last.op = "assign" /\ last.ok /\ last.dst = "A" /\ last.src = "B"
    /\ mats["A"].rows = 2 /\ mats["A"].cols = 1
    /\ mats["A"].data = mats["B"].data /\ mats["A"].data[1] = Num(-2)

-----------------------------------------------------------------------------
(* operator()(i, j). *)

\* C15: elementAt(i,j), read or mutable, fails whenever i >= rows or j >= cols,
\* also when i*cols + j lies inside the buffer; no buffer position is then read
\* or written and the container is unchanged
C15_OutOfRange ==
    [][\A s \in Slots :
          (/\ last' # last /\ LastCall'.op \in {"read", "write"} /\ LastCall'.src = s
           /\ (LastCall'.i >= mats[s].rows \/ LastCall'.j >= mats[s].cols))
          => /\ last'.op \in {"read", "write"} /\ ~last'.ok
             /\ "pos" \notin DOMAIN last'
             /\ mats' = mats]_vars

\* a store at (i, j) with j >= cols and i*cols + j inside the buffer was refused
C15_Witness ==
    /\ last.op = "write" /\ ~last.ok
    /\ last.i < mats[last.src].rows /\ last.j >= mats[last.src].cols
    /\ last.i * mats[last.src].cols + last.j < Len(mats[last.src].data)

-----------------------------------------------------------------------------
(* The constructors. *)

\* C16: no construction entry point yields a container with rows = 0 or
\* cols = 0; a request for such a shape, the empty list included, fails
C16_NoDegenerate ==
    (last.op \in {"fill", "buffer", "list", "copy", "fromOp", "t"} /\ last.ok)
    => mats[last.dst].rows >= 1 /\ mats[last.dst].cols >= 1

\* C18: construct(rows, cols, sourceBuffer) yields a container of shape
\* (rows, cols) whose buffer position k equals sourceBuffer[k] for every
\* k < rows*cols
C18_FromBuffer ==
    (last.op = "buffer" /\ MatrixFillOk(last.r, last.c) /\ last.r * last.c <= Len(last.buf))
    => /\ last.ok
       /\ mats[last.dst].rows = last.r /\ mats[last.dst].cols = last.c
       /\ Len(mats[last.dst].data) = last.r * last.c
       /\ \A k \in 1..(last.r * last.c) : mats[last.dst].data[k] = last.buf[k]

-----------------------------------------------------------------------------
(* Vector<T>. *)

\* C17: every Row-Vector, whichever constructor built it and after any
\* assign and reshape calls, has exactly one row and cols = size, as reported
\* by its rows() and cols() and as stored in the underlying container that the
\* node operators read
C17_RowVector ==
    \A v \in Vectors :
       mats[v].live
       => /\ VectorRows(mats[v]) = 1 /\ VectorCols(mats[v]) = mats[v].size
          /\ mats[v].rows = 1 /\ mats[v].cols = mats[v].size

-----------------------------------------------------------------------------
(* The parallel loops of the materialisation. *)

\* C19: with the fill steps distributed over parallel workers and interleaved
\* in any order, no two steps write the same buffer position, no step writes a
\* position that any step reads, and the final container equals the one the
\* sequential row-major pass produces
C19_ParallelFill ==
    last.op \in {"parallel", "joined"}
    => /\ \A q \in DOMAIN last.writes : last.writes[q] <= 1
       /\ \A rd \in last.reads : rd[1] # last.dst
       /\ last.op = "joined"
          => LET seq == MatrixFromOp(last.node, mats, scalars, Num(0))
             IN  /\ \A q \in DOMAIN last.writes : last.writes[q] = 1
                 /\ mats[last.dst].rows = seq.rows /\ mats[last.dst].cols = seq.cols
                 /\ \A p \in IndexPairs(seq.rows, seq.cols) :
                       NConverts(last.node, p[1], p[2], mats, scalars)
                       => Elt(mats[last.dst], p[1], p[2]) = Elt(seq, p[1], p[2])

\* the four entries of (A + B) - B were filled by two threads and the team joined
C19_Witness ==
    /\ last.op = "joined" /\ last.node.op = "MatSub"
    /\ mats["R"].rows = 2 /\ mats["R"].cols = 2
    /\ mats["R"].data # MatrixFill(2, 2, Num(0)).data

-----------------------------------------------------------------------------
(* The scalar of MatScale and MatShift. *)

\* C20: a ScalarScale or ScalarShift node owns its scalar by value: when the
\* scalar variable of the caller is changed after the node is built and before
\* it is materialised, every entry still uses the value s0 the scalar had at
\* node construction, operand(i,j) * s0 respectively operand(i,j) + s0
C20_ScalarOwned ==
    (FromOpOver(ScalarOps) /\ DenseContainer(mats[LastCall.node.u.id]))
    => LET A == mats[LastCall.node.u.id]
           R == mats[LastCall.dst]
           s0 == CellValues[LastCall.node.s]
       IN  /\ last.op = "fromOp" /\ last.ok
           /\ \A p \in IndexPairs(A.rows, A.cols) :
                 Elt(R, p[1], p[2]) =
                    (IF last.node.op = "MatScale"
                     THEN Mul(Elt(A, p[1], p[2]), s0)
                     ELSE Add(Elt(A, p[1], p[2]), s0))

-----------------------------------------------------------------------------
(* The size of a constructed object. *)

\* C21: for every accepted construct(rows, cols[, fill]) the stored size and
\* the buffer length equal the mathematical product rows x cols, never that
\* product modulo 2^w: a product that std::size_t cannot hold is rejected
C21_SizeProduct ==
    (last.op = "fill" /\ last.ok)
    => /\ last.r * last.c < SizeMod
       /\ mats[last.dst].size = last.r * last.c
       /\ Len(mats[last.dst].data) = last.r * last.c

-----------------------------------------------------------------------------
(* MatMul over non-integer values. *)

\* x + y and x * y without rounding
ExactAdd(x, y) ==
    LET e == MaxOf(x.e, y.e)
    IN  Norm(x.n * Pow2(e - x.e) + y.n * Pow2(e - y.e), e)

ExactMul(x, y) == Norm(x.n * y.n, x.e + y.e)

\* the exact dot product of the first c elements of row and col
RECURSIVE ExactDot(_, _, _)
ExactDot(row, col, c) ==
    IF c = 0 THEN [n |-> 0, e |-> 0]
    ELSE ExactAdd(ExactDot(row, col, c - 1), ExactMul(row[c], col[c]))

\* C22: the matrix-product entry is accumulated in the element type: for
\* non-integer elements, as produced by 0.5 * A, materialize((0.5 * A) * B)(i,j)
\* equals the exact dot product of row i and column j, no term or partial sum
\* being truncated to an integer.  Stated for the entries whose dot product is
\* a value of the element type and whose partial sums lie within int
C22_ElementType ==
    (/\ last.op = "fromOp" /\ last.ok
     /\ last.node.op = "MatMul" /\ last.node.u.op = "MatScale"
     /\ IsLeaf(last.node.u.u) /\ IsLeaf(last.node.v)
     /\ DenseContainer(mats[last.node.u.u.id]) /\ DenseContainer(mats[last.node.v.id]))
    => LET n == last.node
           k == NCols(n.u, mats)
           R == mats[last.dst]
       IN  \A p \in IndexPairs(R.rows, R.cols) :
              LET row == [c \in 1..k |-> NAt(n.u, p[1], c - 1, mats, scalars)]
                  col == [c \in 1..k |-> At(mats[n.v.id], c - 1, p[2])]
                  x == ExactDot(row, col, k)
              IN  (NConverts(n, p[1], p[2], mats, scalars) /\ Round(x.n, x.e) = x)
                  => Elt(R, p[1], p[2]) = x

-----------------------------------------------------------------------------
(* Assignment of a node to one of its operands. *)

\* the named objects a node refers to
RECURSIVE Leaves(_)
Leaves(n) ==
    IF IsLeaf(n) THEN {n.id}
    ELSE IF n.op \in ScalarOps THEN Leaves(n.u)
    ELSE Leaves(n.u) \cup Leaves(n.v)

\* C23: assigning a node to a container that is an operand of the node
\* (A = A + B, A = A & A, A = A * A) gives A the value of the expression on the
\* contents A had before the assignment: no entry is computed from an element
\* already overwritten, and A ends with the shape of the node
C23_Aliasing ==
    [][\A s \in Slots :
          (/\ last' # last /\ LastCall'.op = "assignOp" /\ LastCall'.dst = s
           /\ s \in Leaves(LastCall'.node)
           /\ MatrixFillOk(NRows(LastCall'.node, mats), NCols(LastCall'.node, mats)))
          => LET n == LastCall'.node
             IN  /\ last'.op = "assignOp" /\ last'.ok
                 /\ mats'[s].rows = NRows(n, mats) /\ mats'[s].cols = NCols(n, mats)
                 /\ Len(mats'[s].data) = NRows(n, mats) * NCols(n, mats)
                 /\ \A p \in IndexPairs(NRows(n, mats), NCols(n, mats)) :
                       NConverts(n, p[1], p[2], mats, scalars)
                       => Elt(mats'[s], p[1], p[2]) = NAt(n, p[1], p[2], mats, scalars)
                 /\ \A v \in Slots \ {s} : mats'[v] = mats[v]]_vars

\* A = A + B was executed for 2 x 1 objects A and B
C23_Witness ==
    /\ last.op = "assignOp" /\ last.ok /\ last.dst = "A"
    /\ last.node = MatSum(Leaf("A"), Leaf("B"))
    /\ mats["A"].rows = 2 /\ mats["A"].cols = 1
    /\ mats["A"].data = <<Num(-1), Num(5)>>

====
